---- MODULE Spec2Model ----
(***************************************************************************)
(* Model of NAS/retrain.py: the retraining driver of a fixed architecture. *)
(* The script is sequential; every statement that calls into the framework *)
(* is a step at which an exception may be raised.  Nothing in the script   *)
(* catches an exception.                                                   *)
(*                                                                         *)
(* Accuracies are exact fractions.  A per-batch accuracy correct/bs and a  *)
(* meter's sum are held in units of 1/AccScale; a meter's average is the   *)
(* fraction <<numerator, denominator>>, compared by cross-multiplication.  *)
(* Floating-point rounding is not modelled.                                *)
(***************************************************************************)
EXTENDS Integers, Sequences, FiniteSets, TLC

\* ---- bounds -------------------------------------------------------------
MaxEpochs    == 2
MaxBatchSize == 2
MaxTrainSize == 2
MaxValidSize == 3

SearchFors == {"macro", "micro"}
AuxWeights == {-1, 0, 1}

VARIABLES
  cfg,          \* args: search_for, aux_weight, retrain_epochs, batch_size, train/valid dataset sizes
  pc,           \* position of the script
  iter,         \* number of values range(retrain_epochs) has yielded
  epoch,        \* the loop variable epoch
  step,         \* the loop variable step of train / validate
  mode,         \* model.train() / model.eval()
  params,       \* version of the model's parameters (one per optimizer.step)
  optSteps,     \* optimizer state: number of steps applied
  grads,        \* state of the .grad buffers
  fwdForm,      \* form of the last forward call of train
  auxAdded,     \* whether the auxiliary loss was added to the last loss
  vmeter,       \* top1 meter of validate
  top1,         \* value returned by validate
  best_top1,
  file,         \* content of result_file
  schedLast,    \* lr_scheduler.last_epoch
  failed,       \* an exception has been raised
  prevBest,     \* history: best_top1 when the current epoch began
  wrote,        \* history: torch.save completed in the current epoch
  batchTrace,   \* history: statements executed for the current training batch
  epochVal,     \* history: <<correct, bs>> of the validation batches of the current epoch
  hist,         \* history: per validated epoch, [params, top1]
  log           \* history: driver events, [ev, epoch, params]

vars == <<cfg, pc, iter, epoch, step, mode, params, optSteps, grads, fwdForm,
          auxAdded, vmeter, top1, best_top1, file, schedLast, failed,
          prevBest, wrote, batchTrace, epochVal, hist, log>>

\* ---- arithmetic helpers --------------------------------------------------
RECURSIVE Fact(_)
Fact(n) == IF n <= 1 THEN 1 ELSE n * Fact(n - 1)

\* unit of the per-batch accuracies: correct/bs = Accuracy(correct, bs) / AccScale
AccScale == Fact(MaxBatchSize)

Zero == <<0, 1>>

RatEq(a, b) == a[1] * b[2] = b[1] * a[2]
RatLt(a, b) == a[1] * b[2] < b[1] * a[2]
RatGe(a, b) == ~RatLt(a, b)

\* number of batches of a DataLoader over n samples
NumBatches(n, b) == (n + b - 1) \div b

\* size of batch i (0-based): full batches, then the remainder
BatchLen(n, b, i) == IF (i + 1) * b <= n THEN b ELSE n - i * b

\* utils.accuracy(...)["acc1"]: fraction of the batch predicted correctly
Accuracy(correct, bs) == (correct * AccScale) \div bs

\* AverageMeter(): val, avg, sum, count all 0
NewMeter == [sum |-> 0, count |-> 0, avg |-> Zero]

\* top1.update(acc, bs)
MeterUpdateUnweighted(m, val, n) ==
  [sum |-> m.sum + val, count |-> m.count + 1, avg |-> <<m.sum + val, (m.count + 1) * AccScale>>]

MeterUpdate(m, val, n) ==
  [sum |-> m.sum + val * n, count |-> m.count + n, avg |-> <<m.sum + val * n, (m.count + n) * AccScale>>]

\* the meters validate starts with
StaleMeter == vmeter

ValidateMeter == NewMeter

\* max(a, b) of Python: the first of the largest
PyMaxSecond(a, b) == b

PyMaxFirst(a, b) == a

PyMax(a, b) == IF RatLt(a, b) THEN b ELSE a

\* if top1 == best_top1
SaveAlways(t, b) == TRUE

SaveNever(t, b) == FALSE

ShouldSave(t, b) == RatEq(t, b)

\* for epoch in range(retrain_epochs): is there a next value
RangeHasNextInclusive(i, n) == i <= n

RangeHasNext(i, n) == i < n

\* search_for == 'micro' selects the two-output call
ForwardFormSwapped(sf) == IF sf = "micro" THEN "single" ELSE "two"

ForwardForm(sf) == IF sf = "micro" THEN "two" ELSE "single"

\* config.aux_weight > 0. and search_for == 'micro'
UseAuxAnyFamily(c) == c.aux_weight > 0

UseAuxNonNegative(c) == c.aux_weight >= 0 /\ c.search_for = "micro"

UseAux(c) == c.aux_weight > 0 /\ c.search_for = "micro"

\* statement order of the body of train's batch loop
TrainNextNoClip(p) ==
  CASE p = "t_zero_grad" -> "t_forward"
    [] p = "t_forward"   -> "t_loss"
    [] p = "t_loss"      -> "t_backward"
    [] p = "t_backward"  -> "t_opt_step"
    [] p = "t_clip"      -> "t_opt_step"
    [] p = "t_opt_step"  -> "t_metrics"
    [] p = "t_metrics"   -> "t_log"
    [] OTHER             -> "t_iter"

TrainNextClipLate(p) ==
  CASE p = "t_zero_grad" -> "t_forward"
    [] p = "t_forward"   -> "t_loss"
    [] p = "t_loss"      -> "t_backward"
    [] p = "t_backward"  -> "t_opt_step"
    [] p = "t_opt_step"  -> "t_clip"
    [] p = "t_clip"      -> "t_metrics"
    [] p = "t_metrics"   -> "t_log"
    [] OTHER             -> "t_iter"

TrainNext(p) ==
  CASE p = "t_zero_grad" -> "t_forward"
    [] p = "t_forward"   -> "t_loss"
    [] p = "t_loss"      -> "t_backward"
    [] p = "t_backward"  -> "t_clip"
    [] p = "t_clip"      -> "t_opt_step"
    [] p = "t_opt_step"  -> "t_metrics"
    [] p = "t_metrics"   -> "t_log"
    [] OTHER             -> "t_iter"

\* statement order of the body of the epoch loop
DriverNextSchedEarly(p) ==
  CASE p = "train"       -> "lr_step"
    [] p = "lr_step"     -> "validate"
    [] p = "validate"    -> "update_best"
    [] p = "update_best" -> "decide"
    [] p = "checkpoint"  -> "loop_head"
    [] OTHER             -> "loop_head"

DriverNext(p) ==
  CASE p = "train"       -> "validate"
    [] p = "validate"    -> "update_best"
    [] p = "update_best" -> "decide"
    [] p = "checkpoint"  -> "lr_step"
    [] OTHER             -> "loop_head"

\* an exception nobody catches ends the process
RaiseSwallowed(p) == p

Raise(p) == "crashed"

\* contents of result_file
FileOf(kind, p) == [kind |-> kind, params |-> p]
NoFile      == FileOf("absent", -1)
Preexisting == FileOf("preexisting", -1)
Partial     == FileOf("partial", -1)

Ev(e) == [ev |-> e, epoch |-> epoch, params |-> params]

\* ---- initial state: arguments parsed (lines 104-115) --------------------
Configs ==
  [search_for : SearchFors, aux_weight : AuxWeights,
   retrain_epochs : 0..MaxEpochs, batch_size : 1..MaxBatchSize,
   train_size : 1..MaxTrainSize, valid_size : 1..MaxValidSize]

Init ==
  /\ cfg \in Configs
  /\ pc = "load_data"
  /\ iter = 0
  /\ epoch = -1
  /\ step = 0
  /\ mode = "train"
  /\ params = 0
  /\ optSteps = 0
  /\ grads = "none"
  /\ fwdForm = "none"
  /\ auxAdded = FALSE
  /\ vmeter = NewMeter
  /\ top1 = Zero
  /\ best_top1 = Zero
  /\ file \in {NoFile, Preexisting}
  /\ schedLast = 0
  /\ failed = FALSE
  /\ prevBest = Zero
  /\ wrote = FALSE
  /\ batchTrace = <<>>
  /\ epochVal = <<>>
  /\ hist = <<>>
  /\ log = <<>>

LenTrain == NumBatches(cfg.train_size, cfg.batch_size)
LenValid == NumBatches(cfg.valid_size, cfg.batch_size)

modelVars  == <<mode, params, optSteps, grads, fwdForm, auxAdded>>
meterVars  == <<vmeter, top1>>
driverVars == <<best_top1, file, schedLast, prevBest, wrote, hist>>
loopVars   == <<iter, epoch, step>>

\* ---- set-up (lines 117-136) ---------------------------------------------
Goto(from, to) ==
  /\ pc = from
  /\ pc' = to

LoadDataset ==
  /\ Goto("load_data", "build_model")
  /\ UNCHANGED <<cfg, loopVars, modelVars, meterVars, driverVars, failed, batchTrace, epochVal, log>>

BuildModel ==
  /\ Goto("build_model", "apply_arch")
  /\ UNCHANGED <<cfg, loopVars, modelVars, meterVars, driverVars, failed, batchTrace, epochVal, log>>

ApplyArch ==
  /\ Goto("apply_arch", "to_device")
  /\ UNCHANGED <<cfg, loopVars, modelVars, meterVars, driverVars, failed, batchTrace, epochVal, log>>

ToDevice ==
  /\ Goto("to_device", "setup_opt")
  /\ UNCHANGED <<cfg, loopVars, modelVars, meterVars, driverVars, failed, batchTrace, epochVal, log>>

SetupTraining ==
  /\ Goto("setup_opt", "init_best")
  /\ schedLast' = 0
  /\ optSteps' = 0
  /\ UNCHANGED <<cfg, loopVars, mode, params, grads, fwdForm, auxAdded, meterVars,
                 best_top1, file, prevBest, wrote, hist, failed, batchTrace, epochVal, log>>

InitBest ==
  /\ Goto("init_best", "loop_head")
  /\ best_top1' = Zero
  /\ UNCHANGED <<cfg, loopVars, modelVars, meterVars, file, schedLast, prevBest, wrote,
                 hist, failed, batchTrace, epochVal, log>>

\* ---- for epoch in range(args.retrain_epochs) (line 137) ------------------
LoopHead ==
  /\ pc = "loop_head"
  /\ IF RangeHasNext(iter, cfg.retrain_epochs) /\ iter <= MaxEpochs
       THEN /\ epoch' = iter
            /\ iter' = iter + 1
            /\ pc' = "train"
            /\ prevBest' = best_top1
            /\ wrote' = FALSE
            /\ epochVal' = <<>>
       ELSE /\ pc' = "final_log"
            /\ UNCHANGED <<epoch, iter, prevBest, wrote, epochVal>>
  /\ UNCHANGED <<cfg, step, modelVars, meterVars, best_top1, file, schedLast, hist,
                 failed, batchTrace, log>>

\* ---- train (lines 27-69) -------------------------------------------------
TrainEntry ==
  /\ Goto("train", "t_iter")
  /\ mode' = "train"
  /\ step' = 0
  /\ batchTrace' = <<>>
  /\ log' = Append(log, Ev("train_begin"))
  /\ UNCHANGED <<cfg, iter, epoch, params, optSteps, grads, fwdForm, auxAdded, meterVars,
                 driverVars, failed, epochVal>>

TrainIter ==
  /\ pc = "t_iter"
  /\ IF step < LenTrain
       THEN /\ pc' = "t_zero_grad"
            /\ batchTrace' = <<>>
       ELSE /\ pc' = "t_return"
            /\ UNCHANGED batchTrace
  /\ UNCHANGED <<cfg, loopVars, modelVars, meterVars, driverVars, failed, epochVal, log>>

ZeroGrad ==
  /\ pc = "t_zero_grad"
  /\ pc' = TrainNext(pc)
  /\ grads' = "zero"
  /\ batchTrace' = Append(batchTrace, "zero_grad")
  /\ UNCHANGED <<cfg, loopVars, mode, params, optSteps, fwdForm, auxAdded, meterVars,
                 driverVars, failed, epochVal, log>>

Forward ==
  /\ pc = "t_forward"
  /\ pc' = TrainNext(pc)
  /\ fwdForm' = ForwardForm(cfg.search_for)
  /\ batchTrace' = Append(batchTrace, "forward")
  /\ UNCHANGED <<cfg, loopVars, mode, params, optSteps, grads, auxAdded, meterVars,
                 driverVars, failed, epochVal, log>>

Loss ==
  /\ pc = "t_loss"
  /\ pc' = TrainNext(pc)
  /\ auxAdded' = UseAux(cfg)
  /\ batchTrace' = Append(batchTrace, "loss")
  /\ UNCHANGED <<cfg, loopVars, mode, params, optSteps, grads, fwdForm, meterVars,
                 driverVars, failed, epochVal, log>>

Backward ==
  /\ pc = "t_backward"
  /\ pc' = TrainNext(pc)
  /\ grads' = "raw"
  /\ batchTrace' = Append(batchTrace, "backward")
  /\ UNCHANGED <<cfg, loopVars, mode, params, optSteps, fwdForm, auxAdded, meterVars,
                 driverVars, failed, epochVal, log>>

ClipGrad ==
  /\ pc = "t_clip"
  /\ pc' = TrainNext(pc)
  /\ grads' = "clipped"
  /\ batchTrace' = Append(batchTrace, "clip")
  /\ UNCHANGED <<cfg, loopVars, mode, params, optSteps, fwdForm, auxAdded, meterVars,
                 driverVars, failed, epochVal, log>>

OptimizerStep ==
  /\ pc = "t_opt_step"
  /\ pc' = TrainNext(pc)
  /\ params' = params + 1
  /\ optSteps' = optSteps + 1
  /\ batchTrace' = Append(batchTrace, "opt_step")
  /\ UNCHANGED <<cfg, loopVars, mode, grads, fwdForm, auxAdded, meterVars,
                 driverVars, failed, epochVal, log>>

\* the meters of train are read by its log lines only, which write no state
TrainMetrics ==
  /\ pc = "t_metrics"
  /\ pc' = TrainNext(pc)
  /\ batchTrace' = Append(batchTrace, "metrics")
  /\ UNCHANGED <<cfg, loopVars, modelVars, meterVars, driverVars, failed, epochVal, log>>

TrainLog ==
  /\ pc = "t_log"
  /\ pc' = TrainNext(pc)
  /\ step' = step + 1
  /\ UNCHANGED <<cfg, iter, epoch, modelVars, meterVars, driverVars, failed, batchTrace,
                 epochVal, log>>

TrainReturn ==
  /\ pc = "t_return"
  /\ pc' = DriverNext("train")
  /\ log' = Append(log, Ev("train_end"))
  /\ UNCHANGED <<cfg, loopVars, modelVars, meterVars, driverVars, failed, batchTrace, epochVal>>

\* ---- validate (lines 72-101) ----------------------------------------------
ValidateEntry ==
  /\ pc = "validate"
  /\ pc' = "v_iter"
  /\ vmeter' = ValidateMeter
  /\ mode' = "eval"
  /\ step' = 0
  /\ log' = Append(log, Ev("validate_begin"))
  /\ UNCHANGED <<cfg, iter, epoch, params, optSteps, grads, fwdForm, auxAdded, top1,
                 driverVars, failed, batchTrace, epochVal>>

ValidateIter ==
  /\ pc = "v_iter"
  /\ pc' = IF step < LenValid THEN "v_batch" ELSE "v_return"
  /\ UNCHANGED <<cfg, loopVars, modelVars, meterVars, driverVars, failed, batchTrace,
                 epochVal, log>>

ValidateBatch ==
  /\ pc = "v_batch"
  /\ pc' = "v_iter"
  /\ LET bs == BatchLen(cfg.valid_size, cfg.batch_size, step)
     IN \E correct \in 0..bs :
          /\ vmeter' = MeterUpdate(vmeter, Accuracy(correct, bs), bs)
          /\ epochVal' = Append(epochVal, <<correct, bs>>)
  /\ step' = step + 1
  /\ UNCHANGED <<cfg, iter, epoch, modelVars, top1, driverVars, failed, batchTrace, log>>

ValidateReturn ==
  /\ pc = "v_return"
  /\ pc' = DriverNext("validate")
  /\ top1' = vmeter.avg
  /\ hist' = Append(hist, [epoch |-> epoch, params |-> params, top1 |-> vmeter.avg])
  /\ log' = Append(log, Ev("validate_end"))
  /\ UNCHANGED <<cfg, loopVars, modelVars, vmeter, best_top1, file, schedLast,
                 prevBest, wrote, failed, batchTrace, epochVal>>

\* ---- rest of the epoch (lines 141-145) ------------------------------------
UpdateBest ==
  /\ pc = "update_best"
  /\ pc' = DriverNext("update_best")
  /\ best_top1' = PyMax(best_top1, top1)
  /\ log' = Append(log, Ev("update"))
  /\ UNCHANGED <<cfg, loopVars, modelVars, meterVars, file, schedLast, prevBest, wrote,
                 hist, failed, batchTrace, epochVal>>

Decide ==
  /\ pc = "decide"
  /\ pc' = IF ShouldSave(top1, best_top1) THEN "save" ELSE DriverNext("checkpoint")
  /\ UNCHANGED <<cfg, loopVars, modelVars, meterVars, driverVars, failed, batchTrace,
                 epochVal, log>>

Save ==
  /\ pc = "save"
  /\ pc' = DriverNext("checkpoint")
  /\ file' = FileOf("saved", params)
  /\ wrote' = TRUE
  /\ log' = Append(log, Ev("save"))
  /\ UNCHANGED <<cfg, loopVars, modelVars, meterVars, best_top1, schedLast, prevBest,
                 hist, failed, batchTrace, epochVal>>

LrStep ==
  /\ pc = "lr_step"
  /\ pc' = DriverNext("lr_step")
  /\ schedLast' = schedLast + 1
  /\ log' = Append(log, Ev("lr_step"))
  /\ UNCHANGED <<cfg, loopVars, modelVars, meterVars, best_top1, file, prevBest, wrote,
                 hist, failed, batchTrace, epochVal>>

FinalLog ==
  /\ Goto("final_log", "done")
  /\ UNCHANGED <<cfg, loopVars, modelVars, meterVars, driverVars, failed, batchTrace, epochVal, log>>

\* ---- exceptions ------------------------------------------------------------
\* any statement but the checkpoint write raises: nothing it was doing is kept
Fail ==
  /\ pc \notin {"done", "crashed", "save"}
  /\ pc' = Raise(pc)
  /\ failed' = TRUE
  /\ UNCHANGED <<cfg, loopVars, modelVars, meterVars, driverVars, batchTrace, epochVal, log>>

\* state_dict() or torch.save raises: the file is untouched when the failure
\* precedes the opening of result_file, truncated or partly written otherwise
SaveFail ==
  /\ pc = "save"
  /\ pc' = Raise(pc)
  /\ failed' = TRUE
  /\ file' \in {file, Partial}
  /\ UNCHANGED <<cfg, loopVars, modelVars, meterVars, best_top1, schedLast, prevBest, wrote,
                 hist, batchTrace, epochVal, log>>

Next ==
  \/ LoadDataset \/ BuildModel \/ ApplyArch \/ ToDevice \/ SetupTraining \/ InitBest
  \/ LoopHead
  \/ TrainEntry \/ TrainIter \/ ZeroGrad \/ Forward \/ Loss \/ Backward \/ ClipGrad
  \/ OptimizerStep \/ TrainMetrics \/ TrainLog \/ TrainReturn
  \/ ValidateEntry \/ ValidateIter \/ ValidateBatch \/ ValidateReturn
  \/ UpdateBest \/ Decide \/ Save \/ LrStep \/ FinalLog
  \/ Fail \/ SaveFail

Spec == Init /\ [][Next]_vars

\* the sequential script keeps executing: every call returns or raises
FairSpec == Spec /\ WF_vars(Next)

\* ---- helpers of the properties -------------------------------------------
RECURSIVE SumOf(_, _)
SumOf(sq, k) == IF sq = <<>> THEN 0 ELSE Head(sq)[k] + SumOf(Tail(sq), k)

IsPrefix(a, b) == Len(a) <= Len(b) /\ SubSeq(b, 1, Len(a)) = a

BatchOrder == <<"zero_grad", "forward", "loss", "backward", "clip", "opt_step", "metrics">>

\* b may come right after a in the events of a run
Follows(a, b) ==
  CASE a.ev = "train_begin"    -> b.ev = "train_end" /\ b.epoch = a.epoch
    [] a.ev = "train_end"      -> b.ev = "validate_begin" /\ b.epoch = a.epoch /\ b.params = a.params
    [] a.ev = "validate_begin" -> b.ev = "validate_end" /\ b.epoch = a.epoch /\ b.params = a.params
    [] a.ev = "validate_end"   -> b.ev = "update" /\ b.epoch = a.epoch /\ b.params = a.params
    [] a.ev = "update"         -> b.ev \in {"save", "lr_step"} /\ b.epoch = a.epoch /\ b.params = a.params
    [] a.ev = "save"           -> b.ev = "lr_step" /\ b.epoch = a.epoch /\ b.params = a.params
    [] a.ev = "lr_step"        -> b.ev = "train_begin" /\ b.epoch = a.epoch + 1
    [] OTHER                   -> FALSE

CountEv(e) == Cardinality({i \in 1..Len(log) : log[i].ev = e})

ValidatePcs == {"validate", "v_iter", "v_batch", "v_return"}

BestIdx == {i \in 1..Len(hist) : RatEq(hist[i].top1, best_top1)}

LastBestIdx == CHOOSE i \in BestIdx : \A j \in BestIdx : j <= i

AfterDecision == pc = "lr_step"

\* ---- C1 ---------------------------------------------------------------------
\* C1: in an epoch the checkpoint is written if and only if the epoch's
\* validation top-1 accuracy is greater than or equal to the best accuracy
\* held before the epoch; in every other epoch nothing is written.
C1_WriteIffAtLeastPrevBest ==
  /\ wrote => RatGe(top1, prevBest)
  /\ AfterDecision => (RatGe(top1, prevBest) => wrote)

\* an epoch below the best passed its decision without a write, after an earlier write
C1_Witness == AfterDecision /\ ~wrote /\ file.kind = "saved" /\ RatLt(top1, prevBest)

\* ---- C2 ---------------------------------------------------------------------
\* C2: best_top1 never decreases from one step (hence one epoch) to the next
\* and never falls below its initial value 0.
C2_BestMonotone ==
  [][RatGe(best_top1', best_top1) /\ RatGe(best_top1', Zero)
  ]_vars

\* an epoch whose accuracy is below the best has gone through the update
C2_Witness == pc = "decide" /\ RatLt(top1, best_top1) /\ RatEq(best_top1, prevBest)

\* ---- C3 ---------------------------------------------------------------------
\* C3: every optimizer step is taken on gradients that were clipped after
\* the backpropagation of the same batch.
C3_ClipBeforeStep ==
  [][optSteps' # optSteps =>
       /\ grads = "clipped"
       /\ Len(batchTrace) >= 2
       /\ batchTrace[Len(batchTrace)] = "clip"
       /\ batchTrace[Len(batchTrace) - 1] = "backward"
  ]_vars

\* the optimizer has stepped on the second batch of a pass
C3_Witness == pc = "t_metrics" /\ step = 1 /\ optSteps >= 2 /\ grads = "clipped"

\* ---- C4 ---------------------------------------------------------------------
\* C4 (as stated): the file is written in an epoch exactly when best_top1
\* changes to a new, higher value in that epoch.
C4_Original ==
  AfterDecision => (wrote <=> RatLt(prevBest, best_top1))

\* C4 (amended): every epoch in which best_top1 rises writes the file, and
\* the file is written exactly in the epochs in which best_top1 rises or the
\* epoch's accuracy equals the unchanged best.
C4_WriteOnRiseOrTie ==
  AfterDecision =>
    /\ RatLt(prevBest, best_top1) => wrote
    /\ wrote <=> (RatLt(prevBest, best_top1) \/ RatEq(top1, prevBest))

\* a later epoch tied the best and wrote the file without changing best_top1
C4_Witness ==
  AfterDecision /\ wrote /\ epoch >= 1 /\ RatEq(best_top1, prevBest) /\ RatLt(Zero, best_top1)

\* ---- C5 ---------------------------------------------------------------------
\* C5: the events of a run follow one another in the order train,
\* validate, best-accuracy update, optional checkpoint write, schedule
\* step, epoch by epoch; validation runs on the parameters the training
\* pass of the same epoch returned, and the next epoch's training pass
\* begins only after the schedule step.
C5_EpochOrder ==
  /\ log # <<>> => log[1].ev = "train_begin" /\ log[1].epoch = 0
  /\ \A i \in 1..(Len(log) - 1) : Follows(log[i], log[i + 1])
  /\ pc = "loop_head" =>
       \/ iter = 0 /\ log = <<>>
       \/ /\ log # <<>>
          /\ log[Len(log)].ev = "lr_step"
          /\ log[Len(log)].epoch = iter - 1
          /\ CountEv("lr_step") = iter

\* the second epoch has completed
C5_Witness ==
  pc = "loop_head" /\ iter = 2 /\ CountEv("train_end") = 2 /\ CountEv("validate_end") = 2

\* ---- C6 ---------------------------------------------------------------------
\* C6 (as stated): from the failure on nothing runs, best_top1 is not
\* updated and the parameter file keeps the content of the last completed
\* write.
C6_Original ==
  [][failed' =>
       /\ pc' = "crashed"
       /\ UNCHANGED <<loopVars, modelVars, meterVars, best_top1, schedLast, hist, log>>
       /\ file' = file
  ]_vars

\* C6 (amended): from the failure on nothing runs and best_top1 is not
\* updated; the file keeps the content of the last completed write unless
\* the failure is that of the checkpoint write itself, which may leave the
\* file partly written.
C6_FatalFailure ==
  [][failed' =>
       /\ pc' = "crashed"
       /\ UNCHANGED <<loopVars, modelVars, meterVars, best_top1, schedLast, hist, log>>
       /\ \/ file' = file
          \/ ~failed /\ pc = "save" /\ file' = Partial
  ]_vars

\* a failure after a completed write: the file still holds that write
C6_Witness == failed /\ pc = "crashed" /\ file.kind = "saved" /\ iter >= 2

\* ---- C7 ---------------------------------------------------------------------
\* C7: the statements of a training batch run in the order zero_grad,
\* forward, loss, backward, clip, optimizer step, metrics; the forward call
\* has two outputs exactly for 'micro'; the auxiliary loss is added exactly
\* for 'micro' with aux_weight > 0.
C7_BatchSteps ==
  /\ IsPrefix(batchTrace, BatchOrder)
  /\ pc = "t_log" => batchTrace = BatchOrder
  /\ Len(batchTrace) >= 2 =>
       /\ fwdForm = "two" <=> cfg.search_for = "micro"
       /\ fwdForm = "single" <=> cfg.search_for # "micro"
  /\ Len(batchTrace) >= 3 =>
       (auxAdded <=> (cfg.search_for = "micro" /\ cfg.aux_weight > 0))

\* a 'micro' batch with a positive weight has run all its statements
C7_Witness ==
  pc = "t_log" /\ cfg.search_for = "micro" /\ cfg.aux_weight > 0 /\ auxAdded /\ fwdForm = "two"

\* ---- C8 ---------------------------------------------------------------------
\* C8: no step of validate changes the parameters, the optimizer state,
\* the gradients or best_top1; the value it returns is the sum of the
\* correct predictions over the sum of the batch sizes of this epoch's
\* validation batches.
C8_ValidateFrame ==
  [][(pc \in ValidatePcs) =>
       /\ UNCHANGED <<params, optSteps, grads, best_top1>>
       /\ (pc = "v_return" /\ ~failed') =>
            (Len(epochVal) = LenValid /\
             RatEq(top1', <<SumOf(epochVal, 1), SumOf(epochVal, 2)>>))
  ]_vars

\* validate has returned in a later epoch, over batches of different sizes
C8_Witness ==
  /\ pc = "update_best" /\ epoch >= 1 /\ Len(epochVal) >= 2
  /\ epochVal[1][2] # epochVal[Len(epochVal)][2]
  /\ RatLt(top1, hist[1].top1)

\* ---- C9 ---------------------------------------------------------------------
\* C9: after every completed epoch the file holds the parameters of the
\* latest epoch whose accuracy equals best_top1, and best_top1 is the
\* largest of 0 and the accuracies seen; the first epoch always writes.
C9_FileHoldsLatestBest ==
  (pc = "loop_head" /\ iter >= 1) =>
    /\ Len(hist) = iter
    /\ \A i \in 1..Len(hist) : RatGe(best_top1, hist[i].top1)
    /\ BestIdx # {}
    /\ file = FileOf("saved", hist[LastBestIdx].params)
    /\ \E j \in 1..Len(log) : log[j].ev = "save" /\ log[j].epoch = 0

\* two epochs tied at the best: the file holds the later one's parameters
C9_Witness ==
  /\ pc = "loop_head" /\ iter >= 2
  /\ RatEq(hist[1].top1, best_top1) /\ RatEq(hist[2].top1, best_top1)
  /\ RatLt(Zero, best_top1)
  /\ file.params = hist[2].params /\ file.params # hist[1].params

\* ---- C10 --------------------------------------------------------------------
\* C10: a run without failure ends, and ends after exactly retrain_epochs
\* training passes, validation passes and schedule steps over the epochs
\* 0 .. retrain_epochs-1 in order; with retrain_epochs = 0 nothing has run,
\* nothing was written and best_top1 is 0.
C10_Terminates ==
  /\ <>(pc = "done" \/ failed)
  /\ [](pc = "done" =>
          /\ iter = cfg.retrain_epochs
          /\ CountEv("train_begin") = cfg.retrain_epochs
          /\ CountEv("train_end") = cfg.retrain_epochs
          /\ CountEv("validate_begin") = cfg.retrain_epochs
          /\ CountEv("validate_end") = cfg.retrain_epochs
          /\ CountEv("lr_step") = cfg.retrain_epochs
          /\ schedLast = cfg.retrain_epochs
          /\ Len(hist) = cfg.retrain_epochs
          /\ \A i \in 1..Len(hist) : hist[i].epoch = i - 1
          /\ cfg.retrain_epochs = 0 =>
               /\ log = <<>>
               /\ file.kind # "saved"
               /\ RatEq(best_top1, Zero)
               /\ params = 0)

\* a run of at least two epochs has ended without failure
C10_Witness == pc = "done" /\ ~failed /\ cfg.retrain_epochs >= 2 /\ iter = cfg.retrain_epochs
====
